---- MODULE Spec2Model ----
(***************************************************************************)
(* RAG ingestion pipeline of scriberr: transcript text extraction, the     *)
(* post-processing hook, the backfill sweep and RAGService.StoreSummary.   *)
(*                                                                         *)
(* Strings are sequences of tokens.  A token is one character of text or   *)
(* one fixed piece of syntax ("{", "null", "Transcript: ", ...), so that   *)
(* concatenation, trimming and prefix tests are computed on the sequence.  *)
(***************************************************************************)
EXTENDS Integers, Sequences, FiniteSets, Bags, TLC

\* ------------------------------------------------------------------ bounds
\* Longest segments array of a structured transcript payload.
MaxSegs == 3
\* Operations (hook invocations and backfill sweeps) started in one behaviour.
MaxRuns == 3

\* ----------------------------------------------------------------- strings
EmptyString == <<>>

\* Whitespace tokens, as strings.TrimSpace sees them.
WhiteSpace == {" ", "\n"}

RECURSIVE TrimLeft(_)
TrimLeft(s) ==
    IF s # <<>> /\ Head(s) \in WhiteSpace THEN TrimLeft(Tail(s)) ELSE s

RECURSIVE TrimRight(_)
TrimRight(s) ==
    IF s # <<>> /\ s[Len(s)] \in WhiteSpace
    THEN TrimRight(SubSeq(s, 1, Len(s) - 1))
    ELSE s

TrimSpace(s) == TrimRight(TrimLeft(s))

HasPrefix(s, tok) == s # <<>> /\ Head(s) = tok

\* ---------------------------------------------------- transcript payloads
\* A payload is the string held in TranscriptionJob.Transcript.  It is kept
\* as the value it was written from, and Raw renders the string itself:
\*   object   a JSON object {"text": ..., "segments": [{"text": ...}, ...]}
\*   badsegs  a JSON object whose "segments" is not an array of objects
\*   badtext  a JSON object whose "text" is not a JSON string
\*   broken   text that starts an object but is not valid JSON
\*   null     the JSON literal null
\*   scalar   any other valid non-object JSON (number, quoted string, array)
\*   plain    text that is not JSON at all
\* lead is the number of whitespace tokens in front of the payload.
Payload(kind, lead, text, segs, chars) ==
    [kind |-> kind, lead |-> lead, text |-> text, segs |-> segs, chars |-> chars]

Quoted(t) == <<"\"">> \o t \o <<"\"">>

RECURSIVE RenderSegments(_)
RenderSegments(segs) ==
    IF segs = <<>> THEN <<>>
    ELSE <<"{", "\"text\":">> \o Quoted(Head(segs)) \o <<"}">>
         \o (IF Len(segs) > 1 THEN <<",">> ELSE <<>>)
         \o RenderSegments(Tail(segs))

Lead(n) == [i \in 1..n |-> " "]

Raw(p) ==
    Lead(p.lead) \o
    CASE p.kind = "object"  -> <<"{", "\"text\":">> \o Quoted(p.text)
                               \o <<",", "\"segments\":", "[">>
                               \o RenderSegments(p.segs) \o <<"]", "}">>
      [] p.kind = "badsegs" -> <<"{", "\"text\":">> \o Quoted(p.text)
                               \o <<",", "\"segments\":", "7", "}">>
      [] p.kind = "badtext" -> <<"{", "\"text\":", "7", "}">>
      [] p.kind = "broken"  -> <<"{">> \o p.chars
      [] p.kind = "null"    -> <<"null">>
      [] p.kind = "scalar"  -> p.chars
      [] p.kind = "plain"   -> p.chars

\* json.Unmarshal([]byte(transcriptJSON), &result) with result a
\* TranscriptResult: the fields the code reads are Text and Segments[i].Text.
\* A JSON null leaves the zero value and reports no error; a value of the
\* wrong JSON type, or text that is not JSON, reports an error.
UnmarshalResult(p) ==
    CASE p.kind = "object" -> [err |-> FALSE, Text |-> p.text, Segments |-> p.segs]
      [] p.kind = "null"   -> [err |-> FALSE, Text |-> EmptyString, Segments |-> <<>>]
      [] OTHER             -> [err |-> TRUE, Text |-> EmptyString, Segments |-> <<>>]

\* json.Unmarshal into struct{ Text string `json:"text"` }: keys other than
\* "text" are ignored, so a payload whose segments are mistyped still decodes.
UnmarshalSimple(p) ==
    CASE p.kind \in {"object", "badsegs"} -> [err |-> FALSE, Text |-> p.text]
      [] p.kind = "null"                  -> [err |-> FALSE, Text |-> EmptyString]
      [] OTHER                            -> [err |-> TRUE, Text |-> EmptyString]

\* ---------------------------------------------------------- text extraction
ErrNone == "nil"
ErrNoText == "no text found in transcript result"
ErrUnable == "unable to extract text from transcript"

\* The strings.Builder loop over result.Segments: i is the next segment,
\* built the builder's content so far.
RECURSIVE NoSeparatorGuard(_, _, _)
NoSeparatorGuard(segs, i, built) ==
    IF i > Len(segs) THEN built
    ELSE IF segs[i] # EmptyString
         THEN NoSeparatorGuard(segs, i + 1, built \o <<" ">> \o segs[i])
         ELSE NoSeparatorGuard(segs, i + 1, built)

RECURSIVE BuildFromSegments(_, _, _)
BuildFromSegments(segs, i, built) ==
    IF i > Len(segs) THEN built
    ELSE IF segs[i] # EmptyString
         THEN BuildFromSegments(segs, i + 1,
                  (IF Len(built) > 0 THEN built \o <<" ">> ELSE built) \o segs[i])
         ELSE BuildFromSegments(segs, i + 1, built)

\* Segments take precedence over the top-level text field.
SegmentsFirst(p) ==
    LET result == UnmarshalResult(p)
    IN  IF ~result.err /\ Len(result.Segments) > 0
        THEN [text |-> BuildFromSegments(result.Segments, 1, EmptyString),
              err |-> ErrNone]
        ELSE IF p.kind \in {"object", "badsegs"} /\ p.text # EmptyString
             THEN [text |-> p.text, err |-> ErrNone]
             ELSE IF ~HasPrefix(TrimSpace(Raw(p)), "{")
                  THEN [text |-> Raw(p), err |-> ErrNone]
                  ELSE [text |-> EmptyString, err |-> ErrUnable]

\* PostProcessingHook.extractTextFromTranscript
Hook_extractTextFromTranscript(p) ==
    LET result == UnmarshalResult(p)
        simpleResult == UnmarshalSimple(p)
    IN  IF ~result.err
        THEN IF result.Text # EmptyString
             THEN [text |-> result.Text, err |-> ErrNone]
             ELSE IF Len(result.Segments) > 0
                  THEN [text |-> BuildFromSegments(result.Segments, 1, EmptyString),
                        err |-> ErrNone]
                  ELSE [text |-> EmptyString, err |-> ErrNoText]
        ELSE IF ~simpleResult.err /\ simpleResult.Text # EmptyString
             THEN [text |-> simpleResult.Text, err |-> ErrNone]
             ELSE IF ~HasPrefix(TrimSpace(Raw(p)), "{")
                  THEN [text |-> Raw(p), err |-> ErrNone]
                  ELSE [text |-> EmptyString, err |-> ErrUnable]

\* The separate copy in the backfill handler's file.
RECURSIVE Backfill_BuildFromSegments(_, _, _)
Backfill_BuildFromSegments(segs, i, built) ==
    IF i > Len(segs) THEN built
    ELSE IF segs[i] # EmptyString
         THEN Backfill_BuildFromSegments(segs, i + 1,
                  (IF Len(built) > 0 THEN built \o <<" ">> ELSE built) \o segs[i])
         ELSE Backfill_BuildFromSegments(segs, i + 1, built)

extractTextFromTranscript(p) ==
    LET result == UnmarshalResult(p)
        simpleResult == UnmarshalSimple(p)
    IN  IF ~result.err
        THEN IF result.Text # EmptyString
             THEN [text |-> result.Text, err |-> ErrNone]
             ELSE IF Len(result.Segments) > 0
                  THEN [text |-> Backfill_BuildFromSegments(result.Segments, 1, EmptyString),
                        err |-> ErrNone]
                  ELSE [text |-> EmptyString, err |-> ErrNoText]
        ELSE IF ~simpleResult.err /\ simpleResult.Text # EmptyString
             THEN [text |-> simpleResult.Text, err |-> ErrNone]
             ELSE IF ~HasPrefix(TrimSpace(Raw(p)), "{")
                  THEN [text |-> Raw(p), err |-> ErrNone]
                  ELSE [text |-> EmptyString, err |-> ErrUnable]

\* --------------------------------------------------------- payload universe
FieldTexts == {<<>>, <<"a">>, <<" ">>, <<"a", " ", "b">>}
SegTexts == {<<>>, <<"a">>, <<"b">>, <<" ">>}

SegSeqs == UNION {[1..n -> SegTexts] : n \in 0..MaxSegs}

ObjectPayloads ==
    {Payload("object", l, t, s, <<>>) : l \in {0, 1}, t \in FieldTexts, s \in SegSeqs}

OtherPayloads ==
    {Payload("badsegs", l, t, <<>>, <<>>) : l \in {0, 1}, t \in FieldTexts}
    \cup {Payload("badtext", l, <<>>, <<>>, <<>>) : l \in {0, 1}}
    \cup {Payload("broken", l, <<>>, <<>>, c) : l \in {0, 1}, c \in {<<>>, <<"a">>}}
    \cup {Payload("null", l, <<>>, <<>>, <<>>) : l \in {0, 1}}
    \cup {Payload("scalar", l, <<>>, <<>>, c) :
              l \in {0, 1}, c \in {<<"7">>, Quoted(<<"a">>), <<"[", "]">>}}
    \cup {Payload("plain", l, <<>>, <<>>, c) :
              l \in {0, 1}, c \in {<<>>, <<" ">>, <<"a">>, <<"a", " ", "b">>, <<"a", "{">>}}

AllPayloads == ObjectPayloads \cup OtherPayloads

\* -------------------------------------------------------- pipeline universe
Jobs == {"j1", "j2"}
\* Ids the scheduler may hand to the hook; "ghost" has no row.
JobIds == Jobs \cup {"ghost"}
\* Row order of the jobs table, the order Find returns rows in.
JobOrder == <<"j1", "j2">>
HookProcs == {1, 2}

StatusCompleted == "completed"
StatusPending == "pending"

\* Nullable columns (*string): null, or a value.
NullPayload == [null |-> TRUE, val |-> Payload("plain", 0, <<>>, <<>>, <<>>)]
SomePayload(p) == [null |-> FALSE, val |-> p]
NullString == [null |-> TRUE, val |-> EmptyString]
SomeString(s) == [null |-> FALSE, val |-> s]

\* Completions the generative model may return as Choices[0].Message.Content.
Completions == {<<"s">>, <<"t">>, EmptyString}

\* Transcripts a completed job may hold.
PipelinePayloads ==
    { Payload("object", 0, <<"a">>, <<>>, <<>>),
      Payload("object", 0, <<>>, <<<<"a">>, <<>>, <<"b">>>>, <<>>),
      Payload("object", 0, <<>>, <<<<>>>>, <<>>),
      Payload("object", 0, <<>>, <<>>, <<>>),
      Payload("broken", 0, <<>>, <<>>, <<"a">>),
      Payload("null", 0, <<>>, <<>>, <<>>),
      Payload("plain", 0, <<>>, <<>>, <<" ">>),
      Payload("plain", 0, <<>>, <<>>, <<"a">>),
      Payload("plain", 0, <<>>, <<>>, <<>>) }

Row(status, transcript, summary) ==
    [status |-> status, transcript |-> transcript, summary |-> summary]

InitialRows ==
    {Row(StatusCompleted, SomePayload(p), NullString) : p \in PipelinePayloads}
    \cup {Row(StatusCompleted, NullPayload, NullString),
          Row(StatusPending, SomePayload(Payload("object", 0, <<"a">>, <<>>, <<>>)),
              NullString)}

\* The second job's rows: ingestible, blank after extraction, or not completed.
OtherRows ==
    {Row(StatusCompleted, SomePayload(Payload("plain", 0, <<>>, <<>>, <<"b">>)), NullString),
     Row(StatusCompleted, SomePayload(Payload("object", 0, <<>>, <<<<>>>>, <<>>)), NullString),
     Row(StatusPending, SomePayload(Payload("plain", 0, <<>>, <<>>, <<"b">>)), NullString)}

\* ------------------------------------------------------- RAGService pieces
\* Content skipping the summary-empty test.
AlwaysSummaryPrefix(summary, transcript) ==
    <<"Summary: ">> \o summary \o <<"\n\nTranscript: ">> \o transcript

\* StoreSummary: the document text built from summary and transcript.
StoreContent(summary, transcript) ==
    IF summary # EmptyString
    THEN <<"Summary: ">> \o summary \o <<"\n\nTranscript: ">> \o transcript
    ELSE <<"Transcript: ">> \o transcript

\* The embedding provider's vector for a text (opaque, a function of the text).
EmbeddingOf(content) == <<"vec">> \o content

Metadata(transcriptionID) ==
    [transcription_id |-> transcriptionID, type |-> "summary"]

Doc(id, content, embedding, metadata) ==
    [id |-> id, content |-> content, embedding |-> embedding, metadata |-> metadata]

\* A request that leaves the metadata out.
RequestWithoutMetadata(transcriptionID, content, embedding) ==
    [ids |-> <<transcriptionID>>, documents |-> <<content>>,
     embeddings |-> <<embedding>>, metadatas |-> <<>>]

\* StoreSummary: the arguments of its AddDocuments call.
StoreRequest(transcriptionID, content, embedding) ==
    [ids |-> <<transcriptionID>>, documents |-> <<content>>,
     embeddings |-> <<embedding>>, metadatas |-> <<Metadata(transcriptionID)>>]

NoRequest == [ids |-> <<>>, documents |-> <<>>, embeddings |-> <<>>, metadatas |-> <<>>]

\* The collection is a bag of documents.
DocsOf(coll, id) == {d \in BagToSet(coll) : d.id = id}

RECURSIVE SumCounts(_, _)
SumCounts(coll, ds) ==
    IF ds = {} THEN 0
    ELSE LET d == CHOOSE x \in ds : TRUE
         IN  CopiesIn(d, coll) + SumCounts(coll, ds \ {d})

CountDocs(coll, id) == SumCounts(coll, DocsOf(coll, id))

\* A write that clears the collection before it adds.
WithoutAll(coll, ids) == EmptyBag

Without(coll, ids) ==
    LET keep == {d \in BagToSet(coll) : \A i \in 1..Len(ids) : d.id # ids[i]}
    IN  [d \in keep |-> coll[d]]

RequestDocs(ids, documents, embeddings, metadatas) ==
    {Doc(ids[i], documents[i], embeddings[i],
         IF i <= Len(metadatas) THEN metadatas[i]
         ELSE [transcription_id |-> "none", type |-> "none"]) : i \in 1..Len(ids)}

\* A write that appends without replacing the entry of the same id.
AddDuplicating(coll, ids, documents, embeddings, metadatas) ==
    coll (+) SetToBag(RequestDocs(ids, documents, embeddings, metadatas))

\* ChromaDBClient.AddDocuments answered with 200: the collection is keyed by
\* id, the entry of each id in the request is replaced by the request's.
AddDocuments(coll, ids, documents, embeddings, metadatas) ==
    Without(coll, ids) (+) SetToBag(RequestDocs(ids, documents, embeddings, metadatas))

\* ------------------------------------------------------------ hook pieces
\* generateSummary: the ceiling on the transcript put in the prompt, counted
\* by len(), that is in elements (bytes) of the Go string.
maxTranscriptLength == 10000

TruncationMarker == <<"... [truncated]">>
SummaryInstruction ==
    <<"Please provide a concise summary of the following transcription:\n\n">>

\* A truncation that also cuts a text of exactly the ceiling's length.
TruncateAtCeiling(transcriptText) ==
    IF Len(transcriptText) >= maxTranscriptLength
    THEN SubSeq(transcriptText, 1, maxTranscriptLength - 1) \o TruncationMarker
    ELSE transcriptText

\* generateSummary: textForSummary.
TextForSummary(transcriptText) ==
    IF Len(transcriptText) > maxTranscriptLength
    THEN SubSeq(transcriptText, 1, maxTranscriptLength) \o TruncationMarker
    ELSE transcriptText

\* generateSummary: the single user message of the request.
SummaryPrompt(transcriptText) == SummaryInstruction \o TextForSummary(transcriptText)

\* An extraction error treated as "no text".
NoFallback(p) ==
    LET r == Hook_extractTextFromTranscript(p)
    IN  IF r.err # ErrNone THEN EmptyString ELSE r.text

\* OnTranscriptionCompleted: the text the run works on, the raw transcript
\* when extraction returned an error.
HookTranscriptText(p) ==
    LET r == Hook_extractTextFromTranscript(p)
    IN  IF r.err # ErrNone THEN Raw(p) ELSE r.text

\* An emptiness test without trimming.
EmptyOnly(text) == text = EmptyString

\* strings.TrimSpace(transcriptText) == ""
IsBlank(text) == TrimSpace(text) = EmptyString

\* A store failure that clears the summary again.
RollbackSummary(row) == [row EXCEPT !.summary = NullString]

\* The job row as the hook leaves it when StoreSummary returned an error:
\* the run logs and returns, the row is not written again.
RowAfterStoreError(row) == row

\* -------------------------------------------------------- backfill pieces
BackfillNoFallback(p) ==
    LET r == extractTextFromTranscript(p)
    IN  IF r.err # ErrNone THEN EmptyString ELSE r.text

\* BackfillRAG: the text stored for a swept job.
BackfillTranscriptText(p) ==
    LET r == extractTextFromTranscript(p)
    IN  IF r.err # ErrNone THEN Raw(p) ELSE r.text

\* A sweep that ignores the summary on the job row.
BackfillIgnoreSummary(row) == EmptyString

\* BackfillRAG: the summary passed to StoreSummary, the row's if it has one.
BackfillSummary(row) == IF ~row.summary.null THEN row.summary.val ELSE EmptyString

\* The rows the sweep selects: completed, transcript not null and not ''.
Selected(row) ==
    /\ row.status = StatusCompleted
    /\ ~row.transcript.null
    /\ Raw(row.transcript.val) # EmptyString

RECURSIVE SelectJobs(_, _, _)
SelectJobs(table, order, i) ==
    IF i > Len(order) THEN <<>>
    ELSE (IF Selected(table[order[i]])
          THEN <<[id |-> order[i], row |-> table[order[i]]]>>
          ELSE <<>>)
         \o SelectJobs(table, order, i + 1)

\* --------------------------------------------------------------- variables
VARIABLES
    xin,        \* extraction harness: the payload handed to the extractor
    xout,       \* extraction harness: which copy ran and what it returned
    ragService, \* "nil" or "ready": the handle the hook and handlers hold
    jobs,       \* the transcription_jobs table: job id -> row
    store,      \* the "transcriptions" collection of the vector store
    hook,       \* one OnTranscriptionCompleted invocation per process
    bf,         \* the BackfillRAG request
    runs,       \* operations started so far
    ingested,   \* per job: the successful StoreSummary writes so far, and
                \* the inputs and content of the first and of the latest one
    chat,       \* the POST /rag/chat request
    stats,      \* the GET /rag/stats request
    batch       \* a GenerateEmbeddings call

xvars == <<xin, xout>>
qvars == <<chat, stats, batch>>
pvars == <<ragService, jobs, store, hook, bf, runs, ingested, qvars>>
vars == <<xin, xout, ragService, jobs, store, hook, bf, runs, ingested, chat, stats, batch>>

\* ------------------------------------------------------ extraction harness
NotRun == [by |-> "none", text |-> EmptyString, err |-> ErrNone]
IdleHarness == [by |-> "off", text |-> EmptyString, err |-> ErrNone]

NoRow == Row("none", NullPayload, NullString)

HookIdle ==
    [pc |-> "idle", id |-> "none", job |-> NoRow, text |-> EmptyString,
     extractErr |-> ErrNone, summary |-> EmptyString, llm |-> "none",
     save |-> "none", content |-> EmptyString, embed |-> "none",
     add |-> "none", outcome |-> "none", before |-> EmptyBag, rowBefore |-> NoRow,
     nSum |-> 0, nEmb |-> 0, nAdd |-> 0,
     \* the prompt sent to the summarizer
     prompt |-> EmptyString,
     \* the vector the embedding provider returned, the AddDocuments request
     embedding |-> EmptyString, req |-> NoRequest]

BfIdle ==
    [pc |-> "idle", list |-> <<>>, idx |-> 0, processed |-> 0, failed |-> 0,
     text |-> EmptyString, content |-> EmptyString, http |-> 0, total |-> 0,
     \* per swept job, how the sweep dealt with it
     fate |-> <<>>, nEmb |-> 0, nAdd |-> 0, nSum |-> 0,
     embedding |-> EmptyString, req |-> NoRequest, reqItem |-> 0,
     \* the table and the collection as the sweep found them
     rowsBefore |-> [j \in Jobs |-> NoRow], storeBefore |-> EmptyBag]

NeverIngested ==
    [n |-> 0, summary |-> EmptyString, text |-> EmptyString, content |-> EmptyString,
     by |-> "none", same |-> FALSE, prevContent |-> EmptyString, prevBy |-> "none"]

\* The record of a successful write by the hook or the sweep: same tells
\* whether it repeats the summary and transcript of the write before it,
\* prevContent is the content that write left.
Ingest(old, by, summary, text, content) ==
    [n |-> old.n + 1, summary |-> summary, text |-> text, content |-> content,
     by |-> by, same |-> old.n > 0 /\ old.summary = summary /\ old.text = text,
     prevContent |-> old.content, prevBy |-> old.by]

\* The request records at rest (their fields are set where the handlers
\* are modelled).
\* A JSON field of a request body: absent, or present with a value.
Absent(zero) == [set |-> FALSE, val |-> zero]
Given(v) == [set |-> TRUE, val |-> v]

NoBody ==
    [wellFormed |-> TRUE, query |-> Absent(EmptyString), model |-> Absent(EmptyString),
     temperature |-> Absent(0)]

ChatIdle ==
    [pc |-> "idle", body |-> NoBody,
     \* the bound RAGChatRequest
     query |-> EmptyString, model |-> EmptyString, temperature |-> 0,
     \* how each provider answered, and how often it was called
     embAnswer |-> "none", queryAnswer |-> "none", llmAnswer |-> "none",
     nEmb |-> 0, nQuery |-> 0, nLLM |-> 0,
     nResults |-> 0, found |-> <<>>, contexts |-> <<>>, prompt |-> EmptyString,
     llmTemperature |-> 0, llmModel |-> EmptyString, completion |-> EmptyString,
     \* what Chat returned and what the handler answered
     response |-> EmptyString, err |-> "nil", http |-> 0, echo |-> EmptyString,
     \* the call that was in flight when the request's context was cancelled
     cancelledAt |-> "none"]

StatsIdle ==
    [pc |-> "idle", http |-> 0, status |-> "none", transcript_count |-> 0,
     collection_name |-> "none", dbReads |-> 0, storeReads |-> 0]

BatchIdle ==
    [pc |-> "idle", texts |-> <<>>, i |-> 0, embeddings |-> <<>>,
     calls |-> <<>>, answers |-> <<>>, result |-> [null |-> TRUE, val |-> <<>>],
     err |-> "nil"]

QueriesOff ==
    /\ chat = ChatIdle
    /\ stats = StatsIdle
    /\ batch = BatchIdle

PipelineOff ==
    /\ QueriesOff
    /\ runs = 0
    /\ ingested = [j \in Jobs |-> NeverIngested]
    /\ ragService = "nil"
    /\ jobs = [j \in Jobs |-> NoRow]
    /\ store = EmptyBag
    /\ hook = [p \in HookProcs |-> HookIdle]
    /\ bf = BfIdle

XInit ==
    /\ xin \in AllPayloads
    /\ xout = NotRun
    /\ PipelineOff

XHookExtract ==
    /\ xout.by = "none"
    /\ xout' = [by |-> "hook"] @@ Hook_extractTextFromTranscript(xin)
    /\ UNCHANGED <<xin, pvars>>

XBackfillExtract ==
    /\ xout.by = "none"
    /\ xout' = [by |-> "backfill"] @@ extractTextFromTranscript(xin)
    /\ UNCHANGED <<xin, pvars>>

XNext == XHookExtract \/ XBackfillExtract

SpecExtract == XInit /\ [][XNext]_vars

\* ---------------------------------------------------------------- pipeline
Init ==
    /\ xin = Payload("plain", 0, <<>>, <<>>, <<>>)
    /\ xout = IdleHarness
    /\ ragService \in {"nil", "ready"}
    /\ jobs \in {[j1 |-> r1, j2 |-> r2] : r1 \in InitialRows, r2 \in OtherRows}
    /\ store = EmptyBag
    /\ hook = [p \in HookProcs |-> HookIdle]
    /\ bf = BfIdle
    /\ runs = 0
    /\ ingested = [j \in Jobs |-> NeverIngested]
    /\ QueriesOff

\* A run that goes on with a job that is not completed.
IgnoreStatus(h, outcome) ==
    IF outcome = "not_completed"
    THEN [h EXCEPT !.pc = "summarize"]
    ELSE [h EXCEPT !.pc = "done", !.outcome = outcome]

\* A run that tries StoreSummary a second time after it failed.
RetryStore(h, outcome) ==
    IF outcome = "store_failed" /\ h.nEmb < 2
    THEN [h EXCEPT !.pc = "embed"]
    ELSE [h EXCEPT !.pc = "done", !.outcome = outcome]

\* The invocation's return, with the reason it logs.
HookDone(h, outcome) == [h EXCEPT !.pc = "done", !.outcome = outcome]

\* OnTranscriptionCompleted up to the summarizer call: the service check, the
\* row read, the status and transcript checks, extraction and the blank test.
\* dbErr is a failure of the row read.
HookEnter(p, id, dbErr) ==
    /\ hook[p].pc = "idle"
    /\ runs < MaxRuns
    /\ runs' = runs + 1
    /\ LET h == [hook[p] EXCEPT !.id = id, !.before = store,
                                !.rowBefore = IF id \in Jobs THEN jobs[id] ELSE NoRow]
       IN  IF ragService = "nil"
           THEN hook' = [hook EXCEPT ![p] = HookDone(h, "no_service")]
           ELSE IF id \notin Jobs \/ dbErr
           THEN hook' = [hook EXCEPT ![p] = HookDone(h, "no_job")]
           ELSE LET job == jobs[id] IN
                IF job.status # StatusCompleted
                THEN hook' = [hook EXCEPT ![p] =
                                 HookDone([h EXCEPT !.job = job], "not_completed")]
                ELSE IF job.transcript.null \/ Raw(job.transcript.val) = EmptyString
                THEN hook' = [hook EXCEPT ![p] =
                                 HookDone([h EXCEPT !.job = job], "no_transcript")]
                ELSE LET text == HookTranscriptText(job.transcript.val)
                         g == [h EXCEPT !.job = job, !.text = text,
                                  !.extractErr =
                                      Hook_extractTextFromTranscript(job.transcript.val).err]
                     IN  IF IsBlank(text)
                         THEN hook' = [hook EXCEPT ![p] = HookDone(g, "empty_text")]
                         ELSE hook' = [hook EXCEPT ![p] = [g EXCEPT !.pc = "summarize"]]
    /\ UNCHANGED <<xvars, qvars, ragService, jobs, store, bf, ingested>>

\* generateSummary and the branch on its error.  The call fails, or answers
\* with no choice, or with a first choice holding completion.
HookSummarize(p, answer, completion) ==
    /\ hook[p].pc = "summarize"
    /\ LET h == [hook[p] EXCEPT !.nSum = @ + 1, !.llm = answer,
                                !.prompt = SummaryPrompt(hook[p].text)]
       IN  IF answer \in {"error", "no_choices"}
           THEN hook' = [hook EXCEPT ![p] =
                            [h EXCEPT !.summary = EmptyString, !.pc = "embed"]]
           ELSE hook' = [hook EXCEPT ![p] =
                            [h EXCEPT !.summary = completion,
                                      !.job.summary = SomeString(completion),
                                      !.pc = "save"]]
    /\ UNCHANGED <<xvars, qvars, ragService, jobs, store, bf, runs, ingested>>

\* database.DB.Save(&job): writes the whole row the run read, with the new
\* summary; an error is logged and the run goes on.
HookSave(p, ok) ==
    /\ hook[p].pc = "save"
    /\ hook' = [hook EXCEPT ![p] = [@ EXCEPT !.save = IF ok THEN "ok" ELSE "error",
                                             !.pc = "embed"]]
    /\ jobs' = IF ok THEN [jobs EXCEPT ![hook[p].id] = hook[p].job] ELSE jobs
    /\ UNCHANGED <<xvars, qvars, ragService, store, bf, runs, ingested>>

\* StoreSummary up to the embedding call.
HookEmbed(p, ok) ==
    /\ hook[p].pc = "embed"
    /\ LET h == [hook[p] EXCEPT !.nEmb = @ + 1,
                                !.content = StoreContent(hook[p].summary, hook[p].text),
                                !.embed = IF ok THEN "ok" ELSE "error"]
       IN  IF ok
           THEN /\ hook' = [hook EXCEPT ![p] =
                                [h EXCEPT !.pc = "add",
                                          !.embedding = EmbeddingOf(h.content)]]
                /\ jobs' = jobs
           ELSE /\ hook' = [hook EXCEPT ![p] = HookDone(h, "store_failed")]
                /\ jobs' = [jobs EXCEPT ![h.id] = RowAfterStoreError(@)]
    /\ UNCHANGED <<xvars, qvars, ragService, store, bf, runs, ingested>>

\* StoreSummary's AddDocuments call and the hook's return.
HookAdd(p, ok) ==
    /\ hook[p].pc = "add"
    /\ LET req == StoreRequest(hook[p].id, hook[p].content, hook[p].embedding)
           h == [hook[p] EXCEPT !.nAdd = @ + 1, !.add = IF ok THEN "ok" ELSE "error",
                                !.req = req]
       IN  IF ok
           THEN /\ store' = AddDocuments(store, req.ids, req.documents,
                                         req.embeddings, req.metadatas)
                /\ hook' = [hook EXCEPT ![p] = HookDone(h, "stored")]
                /\ jobs' = jobs
                /\ ingested' = [ingested EXCEPT ![h.id] =
                                    Ingest(@, "hook", h.summary, h.text, h.content)]
           ELSE /\ store' = store
                /\ ingested' = ingested
                /\ hook' = [hook EXCEPT ![p] = HookDone(h, "store_failed")]
                /\ jobs' = [jobs EXCEPT ![h.id] = RowAfterStoreError(@)]
    /\ UNCHANGED <<xvars, qvars, ragService, bf, runs>>

\* The invocation returns; its locals are gone.
HookReturn(p) ==
    /\ hook[p].pc = "done"
    /\ hook' = [hook EXCEPT ![p] = HookIdle]
    /\ UNCHANGED <<xvars, qvars, ragService, jobs, store, bf, runs, ingested>>

\* BackfillRAG up to the loop: the service check and the Find query.
BackfillStart(dbErr) ==
    /\ bf.pc = "idle"
    /\ runs < MaxRuns
    /\ runs' = runs + 1
    /\ IF ragService = "nil" \/ dbErr
       THEN bf' = [bf EXCEPT !.pc = "done", !.http = 500,
                             !.rowsBefore = jobs, !.storeBefore = store]
       ELSE bf' = [bf EXCEPT !.pc = "item", !.list = SelectJobs(jobs, JobOrder, 1),
                             !.idx = 1, !.processed = 0, !.failed = 0,
                             !.rowsBefore = jobs, !.storeBefore = store]
    /\ UNCHANGED <<xvars, qvars, ragService, jobs, store, hook, ingested>>

Fate(item, how, extractErr) == [id |-> item.id, how |-> how, extractErr |-> extractErr]

\* A loop that ends at the first item that fails.
StopAtFailure(b) == [b EXCEPT !.failed = @ + 1, !.idx = Len(b.list) + 1]

\* failed++ and continue: the loop goes on with the next job.
AfterFailedItem(b) == [b EXCEPT !.failed = @ + 1, !.idx = @ + 1]

\* One loop iteration up to StoreSummary's embedding call: the nil test,
\* extraction, the blank test, the summary of the row, the embedding.
BackfillItem(embOk) ==
    /\ bf.pc = "item"
    /\ bf.idx <= Len(bf.list)
    /\ LET item == bf.list[bf.idx]
           job == item.row
       IN  IF job.transcript.null \/ Raw(job.transcript.val) = EmptyString
           THEN bf' = [bf EXCEPT !.idx = @ + 1,
                                 !.fate = Append(@, Fate(item, "skipped", ErrNone))]
           ELSE LET text == BackfillTranscriptText(job.transcript.val)
                    xerr == extractTextFromTranscript(job.transcript.val).err
                IN  IF IsBlank(text)
                    THEN bf' = AfterFailedItem(
                                   [bf EXCEPT !.fate = Append(@, Fate(item, "blank", xerr))])
                    ELSE LET b == [bf EXCEPT !.text = text, !.nEmb = @ + 1,
                                      !.content = StoreContent(BackfillSummary(job), text)]
                         IN  IF embOk
                             THEN bf' = [b EXCEPT !.pc = "add",
                                           !.embedding = EmbeddingOf(b.content),
                                           !.fate = Append(@, Fate(item, "embedded", xerr))]
                             ELSE bf' = AfterFailedItem(
                                            [b EXCEPT !.fate =
                                                Append(@, Fate(item, "embed_failed", xerr))])
    /\ UNCHANGED <<xvars, qvars, ragService, jobs, store, hook, runs, ingested>>

\* StoreSummary's AddDocuments call for the current job, and the counting.
BackfillAdd(ok) ==
    /\ bf.pc = "add"
    /\ LET item == bf.list[bf.idx]
           last == Len(bf.fate)
           req == StoreRequest(item.id, bf.content, bf.embedding)
       IN  IF ok
           THEN /\ store' = AddDocuments(store, req.ids, req.documents,
                                         req.embeddings, req.metadatas)
                /\ bf' = [bf EXCEPT !.processed = @ + 1, !.idx = @ + 1, !.pc = "item",
                                    !.nAdd = @ + 1, !.fate[last].how = "stored",
                                    !.req = req, !.reqItem = bf.idx]
                /\ ingested' = [ingested EXCEPT ![item.id] =
                                    Ingest(@, "backfill", BackfillSummary(item.row), bf.text, bf.content)]
           ELSE /\ store' = store
                /\ ingested' = ingested
                /\ bf' = AfterFailedItem(
                              [bf EXCEPT !.pc = "item",
                                         !.nAdd = @ + 1, !.fate[last].how = "add_failed",
                                         !.req = req, !.reqItem = bf.idx])
    /\ UNCHANGED <<xvars, qvars, ragService, jobs, hook, runs>>

\* The 200 response after the loop.
BackfillFinish ==
    /\ bf.pc = "item"
    /\ bf.idx > Len(bf.list)
    /\ bf' = [bf EXCEPT !.pc = "done", !.http = 200, !.total = Len(bf.list)]
    /\ UNCHANGED <<xvars, qvars, ragService, jobs, store, hook, runs, ingested>>

\* The handler returns.
BackfillReturn ==
    /\ bf.pc = "done"
    /\ bf' = BfIdle
    /\ UNCHANGED <<xvars, qvars, ragService, jobs, store, hook, runs, ingested>>

\* ------------------------------------------------------------------ stats
CollectionName == "transcriptions"

\* A count of the completed rows, whatever their transcript.
CountCompleted(table) ==
    Cardinality({j \in DOMAIN table : table[j].status = StatusCompleted})

\* GetStats: the Count query over the job table.
CountTranscripts(table) ==
    Cardinality({j \in DOMAIN table : Selected(table[j])})

\* A handler that asks the service without testing the handle.
StatsWithoutServiceCheck(service, dbErr, table) ==
    IF dbErr \/ service = "nil"
    THEN [StatsIdle EXCEPT !.pc = "done", !.http = 500, !.dbReads = 1]
    ELSE [StatsIdle EXCEPT !.pc = "done", !.http = 200, !.status = "active",
                           !.transcript_count = CountTranscripts(table),
                           !.collection_name = CollectionName, !.dbReads = 1]

\* RAGStats and GetStats: dbErr is a failure of the Count query.
StatsResponse(service, dbErr, table) ==
    IF service = "nil"
    THEN [StatsIdle EXCEPT !.pc = "done", !.http = 200, !.status = "inactive",
                           !.transcript_count = 0]
    ELSE IF dbErr
    THEN [StatsIdle EXCEPT !.pc = "done", !.http = 500, !.dbReads = 1]
    ELSE [StatsIdle EXCEPT !.pc = "done", !.http = 200, !.status = "active",
                           !.transcript_count = CountTranscripts(table),
                           !.collection_name = CollectionName, !.dbReads = 1]

\* No ingestion is running.
Quiet ==
    /\ \A q \in HookProcs : hook[q].pc = "idle"
    /\ bf.pc = "idle"

RAGStats(dbErr) ==
    /\ stats.pc = "idle"
    /\ stats' = StatsResponse(ragService, dbErr, jobs)
    /\ UNCHANGED <<xvars, ragService, jobs, store, hook, bf, runs, ingested, chat, batch>>

StatsReturn ==
    /\ stats.pc = "done"
    /\ stats' = StatsIdle
    /\ UNCHANGED <<xvars, ragService, jobs, store, hook, bf, runs, ingested, chat, batch>>

\* The sequential specification: one hook process, operations one at a
\* time, each started only when the one before it has returned.
SeqProcs == {1}
Solo(p) ==
    /\ \A q \in HookProcs \ {p} : hook[q].pc = "idle"
    /\ p # 0 => bf.pc = "idle"
    /\ stats.pc = "idle"
    /\ chat.pc = "idle"

Next ==
    \/ \E p \in SeqProcs, id \in JobIds, dbErr \in BOOLEAN :
           Solo(p) /\ HookEnter(p, id, dbErr)
    \/ \E p \in SeqProcs, answer \in {"error", "no_choices", "ok"}, c \in Completions :
           HookSummarize(p, answer, c)
    \/ \E p \in SeqProcs, ok \in BOOLEAN : HookSave(p, ok)
    \/ \E p \in SeqProcs, ok \in BOOLEAN : HookEmbed(p, ok)
    \/ \E p \in SeqProcs, ok \in BOOLEAN : HookAdd(p, ok)
    \/ \E p \in SeqProcs : HookReturn(p)
    \/ \E dbErr \in BOOLEAN : Solo(0) /\ BackfillStart(dbErr)
    \/ \E ok \in BOOLEAN : BackfillItem(ok)
    \/ \E ok \in BOOLEAN : BackfillAdd(ok)
    \/ BackfillFinish
    \/ BackfillReturn
    \/ \E dbErr \in BOOLEAN : Quiet /\ RAGStats(dbErr)
    \/ StatsReturn

Spec == Init /\ [][Next]_vars

\* ================================================================== claims
\* A hook run that got past the row checks (it read a completed job with a
\* transcript): its record holds the row and the extracted text.
PastRowChecks(h) ==
    /\ h.pc # "idle"
    /\ h.outcome \notin {"no_service", "no_job", "not_completed", "no_transcript"}

SummarizerFailed(h) == h.llm \in {"error", "no_choices"}

TheDoc(id, content) == Doc(id, content, EmbeddingOf(content), Metadata(id))

HoldsExactly(coll, id, content) ==
    /\ DocsOf(coll, id) = {TheDoc(id, content)}
    /\ CountDocs(coll, id) = 1

\* C1: a hook run whose summarizer call failed still goes on to StoreSummary:
\* it calls the embedding provider once, with content exactly
\* "Transcript: {transcript}", it never ends in an abort, and when the
\* embedding and the write succeed it ends stored, the collection holding
\* that content under the job id.
C1_SummaryFailureStillStores ==
    \A p \in HookProcs :
        (hook[p].pc = "done" /\ SummarizerFailed(hook[p])) =>
            /\ hook[p].nEmb = 1
            /\ hook[p].content = <<"Transcript: ">> \o hook[p].text
            /\ hook[p].outcome \in {"stored", "store_failed"}
            /\ hook[p].outcome = "store_failed" =>
                   (hook[p].embed = "error" \/ hook[p].add = "error")
            /\ hook[p].outcome = "stored" =>
                   HoldsExactly(store, hook[p].id, <<"Transcript: ">> \o hook[p].text)
            /\ jobs[hook[p].id] = hook[p].rowBefore

C1_Witness ==
    \E p \in HookProcs :
        /\ hook[p].pc = "done"
        /\ hook[p].llm = "error"
        /\ hook[p].outcome = "stored"
        /\ hook[p].text = <<"a">>

C3_Claimed_ExtractionErrorStoresNothing ==
    /\ \A p \in HookProcs :
           (PastRowChecks(hook[p]) /\ hook[p].extractErr # ErrNone) =>
               /\ hook[p].pc = "done"
               /\ hook[p].nEmb = 0
               /\ hook[p].nAdd = 0
               /\ store = hook[p].before
    /\ \A i \in 1..Len(bf.fate) :
           bf.fate[i].extractErr # ErrNone => bf.fate[i].how = "blank"

\* C3 (amended): when extraction returns an error the hook and the sweep
\* go on with the raw payload as the transcript text.  That text is never
\* blank, so the run is not aborted for emptiness; a document the run stores
\* has the raw payload as its transcript, and the sweep counts the job as
\* failed only when the embedding or the write failed.
C3_ExtractionErrorFallsBackToRaw ==
    /\ \A p \in HookProcs :
           (PastRowChecks(hook[p]) /\ hook[p].extractErr # ErrNone) =>
               /\ hook[p].text = Raw(hook[p].job.transcript.val)
               /\ TrimSpace(hook[p].text) # EmptyString
               /\ hook[p].outcome # "empty_text"
               /\ hook[p].outcome = "stored" =>
                      HoldsExactly(store, hook[p].id,
                          StoreContent(hook[p].summary,
                                       Raw(hook[p].job.transcript.val)))
    /\ \A i \in 1..Len(bf.fate) :
           bf.fate[i].extractErr # ErrNone =>
               /\ bf.fate[i].how \in {"embedded", "stored", "embed_failed", "add_failed"}
               /\ bf.fate[i].how = "stored" =>
                      HoldsExactly(store, bf.fate[i].id,
                          StoreContent(BackfillSummary(bf.list[i].row),
                                       Raw(bf.list[i].row.transcript.val)))

C3_Witness ==
    \E p \in HookProcs :
        /\ hook[p].pc = "done"
        /\ hook[p].extractErr = ErrNoText
        /\ hook[p].outcome = "stored"

\* C4: a hook run whose summarization succeeded and whose vector-store write
\* (embedding or add) failed leaves the collection as it found it, and the
\* summary it saved on the job row is still there.
C4_StoreFailureKeepsSummary ==
    \A p \in HookProcs :
        (hook[p].pc = "done" /\ hook[p].llm = "ok" /\ hook[p].outcome = "store_failed") =>
            /\ store = hook[p].before
            /\ hook[p].save = "ok" =>
                   jobs[hook[p].id].summary = SomeString(hook[p].summary)
            /\ hook[p].save = "error" =>
                   jobs[hook[p].id] = hook[p].rowBefore

C4_Witness ==
    \E p \in HookProcs :
        /\ hook[p].pc = "done"
        /\ hook[p].llm = "ok"
        /\ hook[p].save = "ok"
        /\ hook[p].summary = <<"s">>
        /\ hook[p].add = "error"
        /\ hook[p].outcome = "store_failed"

\* The sweep answered 200.
SweepDone == bf.pc = "done" /\ bf.http = 200

Swept == 1..Len(bf.list)
PayloadOf(i) == bf.list[i].row.transcript.val
ExtractionFailed(i) == extractTextFromTranscript(PayloadOf(i)).err # ErrNone
\* The text the sweep works on: the extracted text, or the raw payload when
\* extraction returned an error.
SweepText(i) ==
    IF ExtractionFailed(i) THEN Raw(PayloadOf(i))
    ELSE extractTextFromTranscript(PayloadOf(i)).text
BlankText(i) == TrimSpace(SweepText(i)) = EmptyString
StorageFailed(i) == bf.fate[i].how \in {"embed_failed", "add_failed"}
Stored(i) == bf.fate[i].how = "stored"

\* C5 as claimed: failed counts the swept jobs whose extraction failed, whose
\* extracted text was blank, or whose storage failed.
C5_Claimed_FailedCountsExtractionErrors ==
    SweepDone =>
        /\ bf.total = Cardinality({j \in Jobs : Selected(jobs[j])})
        /\ bf.failed = Cardinality({i \in Swept :
                           ExtractionFailed(i) \/ BlankText(i) \/ StorageFailed(i)})
        /\ bf.processed = Cardinality({i \in Swept : Stored(i)})

\* C5 (amended): total is the number of completed jobs swept, failed the
\* number of swept jobs whose text (the raw payload when extraction failed)
\* was blank or whose storage failed, processed the number stored; a job
\* whose extraction failed is counted by what became of its raw payload.
\* With every storage call succeeding, a sweep of which k jobs have blank
\* text reports processed = total - k and failed = k.
C5_BackfillCounts ==
    SweepDone =>
        /\ bf.total = Cardinality({j \in Jobs : Selected(jobs[j])})
        /\ bf.total = Len(bf.fate)
        /\ bf.failed = Cardinality({i \in Swept : BlankText(i) \/ StorageFailed(i)})
        /\ bf.processed = Cardinality({i \in Swept : Stored(i)})
        /\ (\A i \in Swept : ~StorageFailed(i)) =>
               /\ bf.failed = Cardinality({i \in Swept : BlankText(i)})
               /\ bf.processed = bf.total - bf.failed

C5_Witness ==
    /\ SweepDone
    /\ bf.total = 2
    /\ bf.processed = 1
    /\ bf.failed = 1
    /\ ExtractionFailed(1)
    /\ Stored(1)
    /\ BlankText(2)

\* What the hook leaves for a row when the summarizer answers as given:
\* the summary it passes to StoreSummary, and the content.
HookSummaryUnder(answer, completion) ==
    IF answer \in {"error", "no_choices"} THEN EmptyString ELSE completion
HookContentUnder(payload, answer, completion) ==
    StoreContent(HookSummaryUnder(answer, completion), HookTranscriptText(payload))

\* C6 as claimed: whatever the summarizer would answer, the content the
\* sweep stored for a job is the content the hook would store for it.
C6_Claimed_BackfillEqualsHook ==
    \A i \in 1..Len(bf.fate) :
        Stored(i) =>
            \A answer \in {"error", "no_choices", "ok"}, c \in Completions :
                HoldsExactly(store, bf.fate[i].id,
                             HookContentUnder(PayloadOf(i), answer, c))

\* C6 (amended): the sweep applies the hook's extraction (with the raw
\* fallback), blank test and embed-and-add stages, but not summarization: it
\* never calls the summarizer and never writes the job table; the content it
\* stores is built from the summary already on the job row (transcript only
\* when there is none), and is the hook's content exactly when the summary
\* the hook would pass to StoreSummary is the one on the row.
C6_BackfillReusesRowSummary ==
    bf.pc # "idle" =>
        /\ jobs = bf.rowsBefore
        /\ bf.nSum = 0
        /\ \A i \in 1..Len(bf.fate) :
               /\ bf.fate[i].how = "blank" <=>
                      IsBlank(HookTranscriptText(PayloadOf(i)))
               /\ Stored(i) =>
                      LET onRow == IF bf.list[i].row.summary.null THEN EmptyString
                                   ELSE bf.list[i].row.summary.val
                      IN  /\ HoldsExactly(store, bf.fate[i].id,
                                 StoreContent(onRow, HookTranscriptText(PayloadOf(i))))
                          /\ \A answer \in {"error", "no_choices", "ok"},
                                c \in Completions :
                                 HoldsExactly(store, bf.fate[i].id,
                                     HookContentUnder(PayloadOf(i), answer, c))
                                 <=> HookSummaryUnder(answer, c) = onRow

C6_Witness ==
    /\ SweepDone
    /\ \E i \in 1..Len(bf.fate) :
           /\ Stored(i)
           /\ ~bf.list[i].row.summary.null
           /\ bf.list[i].row.summary.val = <<"s">>

\* C7: when the text of a hook run is empty or whitespace after trimming
\* the run is over without a summarizer, embedding or vector-store call and
\* the job row and the collection are as the run found them; the sweep
\* counts such a job as failed and stores nothing for it.
C7_BlankTextAborts ==
    /\ \A p \in HookProcs :
           (PastRowChecks(hook[p])
              /\ TrimSpace(HookTranscriptText(hook[p].job.transcript.val)) = EmptyString) =>
               /\ hook[p].pc = "done"
               /\ hook[p].outcome = "empty_text"
               /\ hook[p].nSum = 0 /\ hook[p].nEmb = 0 /\ hook[p].nAdd = 0
               /\ jobs[hook[p].id] = hook[p].rowBefore
               /\ store = hook[p].before
    /\ \A i \in 1..Len(bf.fate) :
           BlankText(i) =>
               /\ bf.fate[i].how = "blank"
               /\ DocsOf(store, bf.fate[i].id) = DocsOf(bf.storeBefore, bf.fate[i].id)
    /\ SweepDone => bf.failed >= Cardinality({i \in Swept : BlankText(i)})

C7_Witness ==
    \E p \in HookProcs :
        /\ hook[p].pc = "done"
        /\ hook[p].outcome = "empty_text"
        /\ hook[p].text = <<" ">>

\* ------------------------------------------------- extraction (SpecExtract)
Ran == xout.by \in {"hook", "backfill"}

\* C8: for a structured payload whose top-level text field is non-empty,
\* both copies of the extractor return that field verbatim and no error,
\* whatever the segments hold (none, empty ones, other text, or a value
\* that is not a segment array at all).
C8_TextFieldVerbatim ==
    (Ran /\ xin.kind \in {"object", "badsegs"} /\ xin.text # EmptyString) =>
        /\ xout.err = ErrNone
        /\ xout.text = xin.text

C8_Witness ==
    /\ xout.by = "hook"
    /\ xin.kind = "object"
    /\ xin.text = <<"a", " ", "b">>
    /\ xin.segs = <<<<"b">>, <<>>, <<"a">>>>

NonEmptySegs(segs) == SelectSeq(segs, LAMBDA t : t # EmptyString)

RECURSIVE JoinBySpace(_)
JoinBySpace(texts) ==
    IF texts = <<>> THEN <<>>
    ELSE IF Len(texts) = 1 THEN texts[1]
    ELSE texts[1] \o <<" ">> \o JoinBySpace(Tail(texts))

\* C9: for a structured payload with an empty text field and a non-empty
\* segments array, both copies of the extractor return, without error, the
\* texts of the non-empty segments in their order joined by exactly one
\* space: no separator in front, behind, or doubled where an empty segment
\* was skipped.
C9_SegmentsJoined ==
    (Ran /\ xin.kind = "object" /\ xin.text = EmptyString /\ Len(xin.segs) > 0) =>
        /\ xout.err = ErrNone
        /\ xout.text = JoinBySpace(NonEmptySegs(xin.segs))
        /\ xin.segs = <<<<"a">>, <<>>, <<"b">>>> => xout.text = <<"a", " ", "b">>

C9_Witness ==
    /\ xout.by = "backfill"
    /\ xin.kind = "object"
    /\ xin.text = EmptyString
    /\ xin.segs = <<<<"a">>, <<>>, <<"b">>>>
    /\ xout.text = <<"a", " ", "b">>

\* C10: for a payload that does not begin with "{" after trimming
\* whitespace, extraction succeeds and returns the payload unchanged.
C10_NonObjectReturnedUnchanged ==
    (Ran /\ ~HasPrefix(TrimSpace(Raw(xin)), "{")) =>
        /\ xout.err = ErrNone
        /\ xout.text = Raw(xin)

\* ------------------------------------------ long transcripts (SpecLong)
\* A text of n elements, the last one marked so that a cut is visible.
LongText(n, last) == [i \in 1..n |-> IF i = n THEN last ELSE "a"]

LongLengths ==
    {maxTranscriptLength - 1, maxTranscriptLength,
     maxTranscriptLength + 1, maxTranscriptLength + 2}

LongPayloads ==
    {Payload("plain", 0, <<>>, <<>>, LongText(n, c)) : n \in LongLengths, c \in {"a", "z"}}
    \cup {Payload("object", 0, LongText(n, c), <<>>, <<>>) : n \in LongLengths, c \in {"a", "z"}}

\* One hook invocation on a table whose first job holds a long transcript.
LongInit ==
    /\ xin = Payload("plain", 0, <<>>, <<>>, <<>>)
    /\ xout = IdleHarness
    /\ ragService = "ready"
    /\ jobs \in {[j1 |-> Row(StatusCompleted, SomePayload(p), NullString),
                  j2 |-> Row(StatusPending,
                             SomePayload(Payload("plain", 0, <<>>, <<>>, <<"b">>)),
                             NullString)] : p \in LongPayloads}
    /\ store = EmptyBag
    /\ hook = [p \in HookProcs |-> HookIdle]
    /\ bf = BfIdle
    /\ runs = MaxRuns - 1
    /\ ingested = [j \in Jobs |-> NeverIngested]
    /\ QueriesOff

LongNext ==
    \/ \E p \in SeqProcs, id \in JobIds, dbErr \in BOOLEAN :
           Solo(p) /\ HookEnter(p, id, dbErr)
    \/ \E p \in SeqProcs, answer \in {"error", "no_choices", "ok"}, c \in Completions :
           HookSummarize(p, answer, c)
    \/ \E p \in SeqProcs, ok \in BOOLEAN : HookSave(p, ok)
    \/ \E p \in SeqProcs, ok \in BOOLEAN : HookEmbed(p, ok)
    \/ \E p \in SeqProcs, ok \in BOOLEAN : HookAdd(p, ok)
    \/ \E p \in SeqProcs : HookReturn(p)

SpecLong == LongInit /\ [][LongNext]_vars

C12_EmptyCompletionFails ==
    \A p \in HookProcs :
        LET h == hook[p]
        IN  (h.nSum = 1 /\ (h.llm \in {"error", "no_choices"}
                            \/ (h.llm = "ok" /\ h.summary = EmptyString))) =>
                /\ h.pc # "save"
                /\ h.save = "none"
                /\ h.job.summary = h.rowBefore.summary
                /\ jobs[h.id] = h.rowBefore

OneEach(req) ==
    /\ Len(req.ids) = 1
    /\ Len(req.documents) = 1
    /\ Len(req.embeddings) = 1
    /\ Len(req.metadatas) = 1

ContentFor(summary, transcript) ==
    IF summary = EmptyString THEN <<"Transcript: ">> \o transcript
    ELSE <<"Summary: ">> \o summary \o <<"\n\nTranscript: ">> \o transcript

WellFormedWrite(req, id, summary, transcript) ==
    /\ OneEach(req)
    /\ req.ids[1] = id
    /\ req.metadatas[1].transcription_id = id
    /\ req.metadatas[1].type = "summary"
    /\ req.documents[1] = ContentFor(summary, transcript)
    /\ req.embeddings[1] = EmbeddingOf(req.documents[1])

\* C13: every write StoreSummary issues, for the hook or for the sweep,
\* carries exactly one id, one document, one embedding and one metadata
\* entry; the id is the job id, the metadata holds transcription_id = id and
\* type = "summary", the document is "Summary: {summary}\n\nTranscript:
\* {transcript}" for a non-empty summary and "Transcript: {transcript}"
\* otherwise, and the embedding is the one computed from that document.
C13_OneDocumentPerWrite ==
    /\ \A p \in HookProcs :
           hook[p].add # "none" =>
               WellFormedWrite(hook[p].req, hook[p].id, hook[p].summary, hook[p].text)
    /\ bf.nAdd > 0 =>
           LET i == bf.reqItem
           IN  WellFormedWrite(bf.req, bf.list[i].id,
                               IF bf.list[i].row.summary.null THEN EmptyString
                               ELSE bf.list[i].row.summary.val,
                               SweepText(i))

C13_Witness ==
    \E p \in HookProcs :
        /\ hook[p].add = "ok"
        /\ hook[p].id = "j1"
        /\ hook[p].summary = EmptyString
        /\ hook[p].text = <<"a">>
        /\ hook[p].req.documents = <<<<"Transcript: ", "a">>>>

\* ------------------------------------------------------------ chat pieces
\* Temperatures are in tenths: 7 is 0.7.
DefaultTemperature == 7
\* The number of results Chat asks Query for.
ChatResults == 5

\* RAGChat: ShouldBindJSON fails on a body that is not the JSON of a
\* RAGChatRequest, and (binding:"required") on a query or model that is
\* absent or the empty string.
BindError(body) ==
    \/ ~body.wellFormed
    \/ ~body.query.set \/ body.query.val = EmptyString
    \/ ~body.model.set \/ body.model.val = EmptyString

\* The service test made before the body is bound.
ServiceCheckFirst(body, service) ==
    IF service = "nil" THEN 500 ELSE IF BindError(body) THEN 400 ELSE 0

\* RAGChat: the status the handler answers before calling Chat, 0 if none.
ChatPrecheck(body, service) ==
    IF BindError(body) THEN 400 ELSE IF service = "nil" THEN 500 ELSE 0

\* The decoded req.Temperature: the zero value when the field is absent.
DecodedTemperature(body) == IF body.temperature.set THEN body.temperature.val ELSE 0

\* RAGChat: the temperature passed to Chat.
ChatTemperature(decoded) == IF decoded = 0 THEN DefaultTemperature ELSE decoded

\* A query that reports an empty result as an error.
ErrorOnNoMatch(answer, docs) ==
    IF answer = "error" \/ answer = "no_groups" \/ docs = <<>>
    THEN [err |-> "failed to query vector DB", contexts |-> <<>>]
    ELSE [err |-> "nil", contexts |-> docs]

\* Query after the vector store answered: answer is "error", "no_groups"
\* (Documents is empty) or "groups" (Documents[0] is docs).
QueryResult(answer, docs) ==
    IF answer = "error"
    THEN [err |-> "failed to query vector DB", contexts |-> <<>>]
    ELSE IF answer = "no_groups" \/ Len(docs) = 0
         THEN [err |-> "nil", contexts |-> <<>>]
         ELSE [err |-> "nil", contexts |-> docs]

PromptPreamble ==
    <<"You are a helpful assistant that answers questions based on the following transcription summaries and transcripts.\n\n",
      "Relevant context:\n">>
PromptClosing == <<"\n\nPlease provide a helpful answer based on the context above.">>

RECURSIVE NumberedContexts(_, _)
NumberedContexts(contexts, i) ==
    IF i > Len(contexts) THEN <<>>
    ELSE <<ToString(i), ". ">> \o contexts[i] \o <<"\n\n">>
         \o NumberedContexts(contexts, i + 1)

\* Chat: the prompt built from the contexts and the question.
ChatPrompt(contexts, query) ==
    PromptPreamble \o NumberedContexts(contexts, 1)
    \o <<"\nUser question: ">> \o query \o PromptClosing

\* An answer without choices passed on as an empty reply.
EmptyReplyOnNoChoices(answer, completion) ==
    IF answer = "error" THEN [err |-> "failed to get LLM response", text |-> EmptyString]
    ELSE IF answer = "no_choices" THEN [err |-> "nil", text |-> EmptyString]
    ELSE [err |-> "nil", text |-> completion]

\* Chat after the model answered.
ChatResult(answer, completion) ==
    IF answer = "error" THEN [err |-> "failed to get LLM response", text |-> EmptyString]
    ELSE IF answer = "no_choices" THEN [err |-> "no response from LLM", text |-> EmptyString]
    ELSE [err |-> "nil", text |-> completion]

\* Request bodies.
Bodies ==
    {[wellFormed |-> w, query |-> q, model |-> m, temperature |-> t] :
        w \in BOOLEAN,
        q \in {Absent(EmptyString), Given(EmptyString), Given(<<"q">>)},
        m \in {Absent(EmptyString), Given(EmptyString), Given(<<"m">>)},
        t \in {Absent(0), Given(0), Given(3), Given(7)}}

\* What a similarity query may return: contents of stored documents, in the
\* store's order of similarity, at most n of them.
Contents(coll) == {d.content : d \in BagToSet(coll)}
Matches(coll, n) ==
    {<<>>} \cup {<<c>> : c \in Contents(coll)}
    \cup (IF n >= 2
          THEN {<<p[1], p[2]>> : p \in {q \in Contents(coll) \X Contents(coll) : q[1] # q[2]}}
          ELSE {})

\* A chat that goes on to the vector store although the embedding failed.
GoOnAfterFailure(c, err, status) ==
    IF c.pc = "embed" THEN [c EXCEPT !.pc = "query"]
    ELSE [c EXCEPT !.pc = "done", !.err = err, !.http = status]

\* Chat returns the error and the handler answers with the status.
Failed(c, err, status) ==
    [c EXCEPT !.pc = "done", !.err = err, !.http = status]

\* RAGChat up to Chat's first provider call: binding, the service test, the
\* temperature default.
ChatBind(body) ==
    /\ chat.pc = "idle"
    /\ LET c == [chat EXCEPT !.body = body]
           status == ChatPrecheck(body, ragService)
       IN  IF status # 0
           THEN chat' = Failed(c, IF status = 400 THEN "bind" ELSE "RAG service not initialized",
                               status)
           ELSE chat' = [c EXCEPT !.pc = "embed", !.query = body.query.val,
                                  !.model = body.model.val,
                                  !.temperature = ChatTemperature(DecodedTemperature(body)),
                                  !.nResults = ChatResults]
    /\ UNCHANGED <<xvars, ragService, jobs, store, hook, bf, runs, ingested, stats, batch>>

\* Query: the embedding of the question.
ChatEmbed(ok) ==
    /\ chat.pc = "embed"
    /\ LET c == [chat EXCEPT !.nEmb = @ + 1, !.embAnswer = IF ok THEN "ok" ELSE "error"]
       IN  IF ok THEN chat' = [c EXCEPT !.pc = "query"]
           ELSE chat' = Failed(c, "failed to query context", 500)
    /\ UNCHANGED <<xvars, ragService, jobs, store, hook, bf, runs, ingested, stats, batch>>

\* Query's vectorDB.Query call, and Chat's prompt.
ChatQuery(answer, docs) ==
    /\ chat.pc = "query"
    /\ docs \in Matches(store, chat.nResults)
    /\ LET r == QueryResult(answer, docs)
           c == [chat EXCEPT !.nQuery = @ + 1, !.queryAnswer = answer,
                             !.found = IF answer = "groups" THEN docs ELSE <<>>]
       IN  IF r.err # "nil"
           THEN chat' = Failed(c, "failed to query context", 500)
           ELSE chat' = [c EXCEPT !.pc = "llm", !.contexts = r.contexts,
                                  !.prompt = ChatPrompt(r.contexts, chat.query)]
    /\ UNCHANGED <<xvars, ragService, jobs, store, hook, bf, runs, ingested, stats, batch>>

\* Chat's ChatCompletion call and the handler's answer.
ChatLLM(answer, completion) ==
    /\ chat.pc = "llm"
    /\ LET r == ChatResult(answer, completion)
           c == [chat EXCEPT !.nLLM = @ + 1, !.llmAnswer = answer,
                             !.llmTemperature = chat.temperature,
                             !.llmModel = chat.model,
                             !.completion = IF answer = "ok" THEN completion ELSE EmptyString]
       IN  IF r.err # "nil"
           THEN chat' = Failed(c, r.err, 500)
           ELSE chat' = [c EXCEPT !.pc = "done", !.response = r.text, !.http = 200,
                                  !.echo = chat.query]
    /\ UNCHANGED <<xvars, ragService, jobs, store, hook, bf, runs, ingested, stats, batch>>

ChatReturn ==
    /\ chat.pc = "done"
    /\ chat' = ChatIdle
    /\ UNCHANGED <<xvars, ragService, jobs, store, hook, bf, runs, ingested, stats, batch>>

\* Collections a chat may find.
DocA == Doc("j1", <<"Transcript: ", "a">>, EmbeddingOf(<<"Transcript: ", "a">>), Metadata("j1"))
DocB == Doc("j2", <<"Summary: ", "s", "\n\nTranscript: ", "b">>,
            EmbeddingOf(<<"Summary: ", "s", "\n\nTranscript: ", "b">>), Metadata("j2"))

ChatInit ==
    /\ xin = Payload("plain", 0, <<>>, <<>>, <<>>)
    /\ xout = IdleHarness
    /\ ragService \in {"nil", "ready"}
    /\ jobs = [j \in Jobs |-> NoRow]
    /\ store \in {EmptyBag, SetToBag({DocA}), SetToBag({DocA, DocB})}
    /\ hook = [p \in HookProcs |-> HookIdle]
    /\ bf = BfIdle
    /\ runs = 0
    /\ ingested = [j \in Jobs |-> NeverIngested]
    /\ QueriesOff

ChatNext ==
    \/ \E body \in Bodies : ChatBind(body)
    \/ \E ok \in BOOLEAN : ChatEmbed(ok)
    \/ \E answer \in {"error", "no_groups", "groups"}, docs \in Matches(store, ChatResults) :
           ChatQuery(answer, docs)
    \/ \E answer \in {"error", "no_choices", "ok"}, c \in Completions : ChatLLM(answer, c)
    \/ ChatReturn

SpecChat == ChatInit /\ [][ChatNext]_vars

\* ------------------------------------------------------------ chat claims
\* The vector store answered the chat's query with no document at all.
ZeroMatches ==
    \/ chat.queryAnswer = "no_groups"
    \/ chat.queryAnswer = "groups" /\ chat.found = <<>>

\* C14: when the vector store returns zero matching documents, Query returns
\* an empty sequence without error, and Chat still calls the generative model
\* exactly once, with a prompt whose context list is empty, and returns the
\* model's answer without error.
C14_NoMatchStillAsksModel ==
    ZeroMatches =>
        /\ chat.pc \in {"llm", "done"}
        /\ chat.contexts = <<>>
        /\ chat.prompt = PromptPreamble \o <<"\nUser question: ">> \o chat.query \o PromptClosing
        /\ chat.pc = "llm" => chat.nLLM = 0 /\ chat.err = "nil"
        /\ chat.pc = "done" =>
              /\ chat.nLLM = 1
              /\ chat.llmAnswer = "ok" =>
                    chat.err = "nil" /\ chat.response = chat.completion /\ chat.http = 200

C14_Witness ==
    /\ ZeroMatches
    /\ store # EmptyBag
    /\ chat.pc = "done" /\ chat.nLLM = 1
    /\ chat.http = 200 /\ chat.response = <<"s">>

\* C15: Chat fails with an error and returns no answer text whenever the
\* model's response holds zero completions, although the call itself
\* succeeded.
C15_NoCompletionsFailsChat ==
    chat.llmAnswer = "no_choices" =>
        /\ chat.pc = "done"
        /\ chat.err = "no response from LLM"
        /\ chat.response = EmptyString
        /\ chat.http = 500

C15_Witness ==
    /\ chat.llmAnswer = "no_choices" /\ chat.nLLM = 1
    /\ chat.pc = "done" /\ chat.err # "nil"

\* The body does not carry what the endpoint requires.
BadBody ==
    \/ ~chat.body.wellFormed
    \/ ~chat.body.query.set \/ chat.body.query.val = EmptyString
    \/ ~chat.body.model.set \/ chat.body.model.val = EmptyString

\* One of the providers Chat calls reported a failure.
ChatFailed ==
    \/ chat.embAnswer = "error"
    \/ chat.queryAnswer = "error"
    \/ chat.llmAnswer \in {"error", "no_choices"}

\* C16: POST /rag/chat answers 400 exactly when the body is malformed or lacks
\* query or model, also when the service is uninitialised; otherwise 500 when
\* the service is uninitialised or Chat returns an error, and 200 with the
\* model's response and the echoed query in every other case; no external
\* provider is called on a 400.
C16_ChatStatusCodes ==
    chat.pc = "done" =>
        /\ chat.http \in {200, 400, 500}
        /\ chat.http = 400 <=> BadBody
        /\ chat.http = 400 => chat.nEmb = 0 /\ chat.nQuery = 0 /\ chat.nLLM = 0
        /\ ~BadBody => (chat.http = 500 <=> (ragService = "nil" \/ ChatFailed))
        /\ chat.http = 200 =>
              /\ chat.response = chat.completion
              /\ chat.echo = chat.body.query.val

C16_Witness ==
    /\ chat.pc = "done"
    /\ chat.http = 400
    /\ ragService = "nil"
    /\ chat.body.wellFormed /\ chat.body.query.set /\ ~chat.body.model.set

\* C19: the chat endpoint calls the generative model with the temperature the
\* caller supplied whenever the caller set one, and with 0.7 only when the
\* caller left the temperature unset.
C19_SuppliedTemperatureUsed ==
    chat.nLLM = 1 =>
        chat.llmTemperature = IF chat.body.temperature.set
                              THEN chat.body.temperature.val
                              ELSE DefaultTemperature

\* ----------------------------------------------------------- stats claims
\* C17: GET /rag/stats on an uninitialised service always answers 200 with
\* status "inactive" and transcript_count 0, never a 500, and reads neither
\* the job records nor the vector store.
C17_InactiveStats ==
    (stats.pc = "done" /\ ragService = "nil") =>
        /\ stats.http = 200
        /\ stats.status = "inactive"
        /\ stats.transcript_count = 0
        /\ stats.dbReads = 0
        /\ stats.storeReads = 0

C17_Witness ==
    /\ stats.pc = "done" /\ ragService = "nil"
    /\ stats.status = "inactive"
    /\ \E j \in Jobs : jobs[j].status = StatusCompleted /\ ~jobs[j].transcript.null

\* The completed job records that carry a non-empty transcript.
CompletedWithTranscript ==
    {j \in Jobs : /\ jobs[j].status = StatusCompleted
                  /\ ~jobs[j].transcript.null
                  /\ Raw(jobs[j].transcript.val) # EmptyString}

\* C18: the transcript_count reported by stats on an initialised service is
\* the number of job records marked completed with a non-empty transcript,
\* whatever the vector store holds: store writes that failed or succeeded do
\* not change it, so it can differ from the number of stored documents.
C18_CountFromJobRecords ==
    (stats.pc = "done" /\ stats.status = "active") =>
        /\ stats.http = 200
        /\ stats.transcript_count = Cardinality(CompletedWithTranscript)
        /\ stats.storeReads = 0

C18_Witness ==
    /\ stats.pc = "done" /\ stats.status = "active"
    /\ stats.transcript_count = 2
    /\ BagCardinality(store) = 1
    /\ \E j \in Jobs : ingested[j] # NeverIngested

\* -------------------------------------------------------- batch embedding
MaxBatch == 3

BatchTexts == {<<"a">>, <<"b">>, <<"c">>}

RECURSIVE SeqsUpTo(_, _)
SeqsUpTo(S, n) ==
    IF n = 0 THEN {<<>>}
    ELSE LET shorter == SeqsUpTo(S, n - 1)
         IN  shorter \cup {Append(q, x) : q \in shorter, x \in S}

\* A loop that passes over a text whose embedding failed.
SkipFailedText(b) == [b EXCEPT !.i = @ + 1]

\* GenerateEmbeddings: the return inside the loop.
AfterEmbeddingError(b) ==
    [b EXCEPT !.pc = "done", !.result = [null |-> TRUE, val |-> <<>>],
              !.err = "failed to generate embedding for text"]

\* GenerateEmbeddings is entered with its texts.
BatchStart(texts) ==
    /\ batch.pc = "idle"
    /\ batch' = [BatchIdle EXCEPT !.pc = "loop", !.texts = texts, !.i = 1]
    /\ UNCHANGED <<xvars, ragService, jobs, store, hook, bf, runs, ingested, chat, stats>>

\* One turn of the loop: the GenerateEmbedding call for the next text.
BatchCall(ok) ==
    /\ batch.pc = "loop"
    /\ batch.i <= Len(batch.texts)
    /\ LET text == batch.texts[batch.i]
           b == [batch EXCEPT !.calls = Append(@, text),
                              !.answers = Append(@, IF ok THEN "ok" ELSE "error")]
       IN  IF ok
           THEN batch' = [b EXCEPT !.embeddings = Append(@, EmbeddingOf(text)),
                                   !.i = @ + 1]
           ELSE batch' = AfterEmbeddingError(b)
    /\ UNCHANGED <<xvars, ragService, jobs, store, hook, bf, runs, ingested, chat, stats>>

\* The return after the loop.
BatchFinish ==
    /\ batch.pc = "loop"
    /\ batch.i > Len(batch.texts)
    /\ batch' = [batch EXCEPT !.pc = "done",
                              !.result = [null |-> FALSE, val |-> batch.embeddings]]
    /\ UNCHANGED <<xvars, ragService, jobs, store, hook, bf, runs, ingested, chat, stats>>

BatchReturn ==
    /\ batch.pc = "done"
    /\ batch' = BatchIdle
    /\ UNCHANGED <<xvars, ragService, jobs, store, hook, bf, runs, ingested, chat, stats>>

BatchInit ==
    /\ xin = Payload("plain", 0, <<>>, <<>>, <<>>)
    /\ xout = IdleHarness
    /\ ragService = "ready"
    /\ jobs = [j \in Jobs |-> NoRow]
    /\ store = EmptyBag
    /\ hook = [p \in HookProcs |-> HookIdle]
    /\ bf = BfIdle
    /\ runs = 0
    /\ ingested = [j \in Jobs |-> NeverIngested]
    /\ QueriesOff

BatchNext ==
    \/ \E texts \in SeqsUpTo(BatchTexts, MaxBatch) : BatchStart(texts)
    \/ \E ok \in BOOLEAN : BatchCall(ok)
    \/ BatchFinish
    \/ BatchReturn

SpecBatch == BatchInit /\ [][BatchNext]_vars

\* C20: the batch embedding applies the single-text embedding to the texts in
\* order; on success it returns one vector per input text in input order; on
\* the first failing text it stops, issues no embedding call for the
\* remaining texts, and returns an error with no partial result.
C20_BatchFailFast ==
    LET n == Len(batch.calls) IN
    /\ n <= Len(batch.texts)
    /\ batch.calls = SubSeq(batch.texts, 1, n)
    /\ Len(batch.answers) = n
    /\ \A k \in 1..(n - 1) : batch.answers[k] = "ok"
    /\ (n > 0 /\ batch.answers[n] = "error") =>
          /\ batch.pc = "done"
          /\ batch.err # "nil"
          /\ batch.result.null /\ batch.result.val = <<>>
    /\ (batch.pc = "done" /\ batch.err = "nil") =>
          /\ n = Len(batch.texts)
          /\ ~batch.result.null
          /\ Len(batch.result.val) = Len(batch.texts)
          /\ \A k \in 1..Len(batch.texts) :
                batch.result.val[k] = EmbeddingOf(batch.texts[k])
    /\ (batch.pc = "done" /\ batch.err # "nil") =>
          n > 0 /\ batch.answers[n] = "error"

C20_Witness ==
    /\ batch.pc = "done" /\ batch.err # "nil"
    /\ Len(batch.texts) = 3
    /\ Len(batch.calls) = 2
    /\ batch.texts[1] # batch.texts[2]
    /\ batch.result.null

\* ------------------------------------------------------- concurrent hooks
\* The hook is called from the transcription workers, one invocation per
\* completed job, with nothing that keeps two invocations apart: the steps of
\* two invocations interleave freely.  Each process runs the hook once.
ConcRows ==
    {Row(StatusCompleted, SomePayload(Payload("plain", 0, <<>>, <<>>, <<"a">>)), NullString),
     Row(StatusCompleted, SomePayload(Payload("object", 0, <<"a">>, <<>>, <<>>)),
         SomeString(<<"t">>))}

ConcInit ==
    /\ xin = Payload("plain", 0, <<>>, <<>>, <<>>)
    /\ xout = IdleHarness
    /\ ragService = "ready"
    /\ jobs \in {[j1 |-> r1, j2 |-> r2] :
                    r1 \in ConcRows,
                    r2 \in {Row(StatusCompleted,
                                SomePayload(Payload("plain", 0, <<>>, <<>>, <<"b">>)),
                                NullString)}}
    /\ store = EmptyBag
    /\ hook = [p \in HookProcs |-> HookIdle]
    /\ bf = BfIdle
    /\ runs = 0
    /\ ingested = [j \in Jobs |-> NeverIngested]
    /\ QueriesOff

ConcNext ==
    \/ \E p \in HookProcs, id \in Jobs, dbErr \in BOOLEAN : HookEnter(p, id, dbErr)
    \/ \E p \in HookProcs, answer \in {"error", "no_choices", "ok"}, c \in Completions :
           HookSummarize(p, answer, c)
    \/ \E p \in HookProcs, ok \in BOOLEAN : HookSave(p, ok)
    \/ \E p \in HookProcs, ok \in BOOLEAN : HookEmbed(p, ok)
    \/ \E p \in HookProcs, ok \in BOOLEAN : HookAdd(p, ok)

SpecConc == ConcInit /\ [][ConcNext]_vars

\* ---------------------------------------------------- concurrency claims
BothDone == \A p \in HookProcs : hook[p].pc = "done"

\* The document an invocation's write puts in the collection.
WrittenBy(h) == Doc(h.id, h.content, EmbeddingOf(h.content), Metadata(h.id))

AloneRow(h) ==
    IF h.llm = "ok" /\ h.save = "ok"
    THEN [h.rowBefore EXCEPT !.summary = SomeString(h.summary)]
    ELSE h.rowBefore

AloneDocs(h) ==
    IF h.embed = "ok" /\ h.add = "ok"
    THEN {Doc(h.id,
              StoreContent(IF h.llm = "ok" THEN h.summary ELSE EmptyString,
                           HookTranscriptText(h.rowBefore.transcript.val)),
              EmbeddingOf(StoreContent(IF h.llm = "ok" THEN h.summary ELSE EmptyString,
                                       HookTranscriptText(h.rowBefore.transcript.val))),
              Metadata(h.id))}
    ELSE {}

\* C22: for every interleaving of hook invocations for two different jobs,
\* each job's final stored document and final job record are the ones its
\* invocation would produce running alone; a failure at any stage of one
\* job's run changes neither the outcome nor the stored data of the other.
C22_DifferentJobsIndependent ==
    (BothDone /\ hook[1].id # hook[2].id) =>
        \A p \in HookProcs :
            LET h == hook[p] IN
            /\ jobs[h.id] = AloneRow(h)
            /\ DocsOf(store, h.id) = AloneDocs(h)
            /\ CountDocs(store, h.id) = Cardinality(AloneDocs(h))

C22_Witness ==
    /\ BothDone
    /\ hook[1].id = "j1" /\ hook[2].id = "j2"
    /\ hook[1].outcome = "stored"
    /\ hook[2].llm = "ok" /\ hook[2].save = "ok" /\ hook[2].add = "error"
    /\ BagToSet(store) = AloneDocs(hook[1])
    /\ jobs["j2"].summary = SomeString(hook[2].summary)

\* --------------------------------------------------- all operations mixed
\* Hook runs, sweeps, chats and stats calls one after the other, in any
\* order, over one job table and one collection.
AllBodies ==
    {[wellFormed |-> TRUE, query |-> Given(<<"q">>), model |-> Given(<<"m">>),
      temperature |-> Absent(0)],
     [wellFormed |-> TRUE, query |-> Given(<<"q">>), model |-> Absent(EmptyString),
      temperature |-> Given(3)]}

AllQuiet == Quiet /\ chat.pc = "idle" /\ stats.pc = "idle"

AllInit ==
    /\ xin = Payload("plain", 0, <<>>, <<>>, <<>>)
    /\ xout = IdleHarness
    /\ ragService \in {"nil", "ready"}
    /\ jobs \in {[j1 |-> r1, j2 |-> r2] :
                    r1 \in ConcRows,
                    r2 \in {Row(StatusCompleted,
                                SomePayload(Payload("plain", 0, <<>>, <<>>, <<"b">>)),
                                NullString),
                            Row(StatusPending,
                                SomePayload(Payload("plain", 0, <<>>, <<>>, <<"b">>)),
                                NullString)}}
    /\ store = EmptyBag
    /\ hook = [p \in HookProcs |-> HookIdle]
    /\ bf = BfIdle
    /\ runs = 0
    /\ ingested = [j \in Jobs |-> NeverIngested]
    /\ QueriesOff

AllNext ==
    \/ \E p \in SeqProcs, id \in JobIds, dbErr \in BOOLEAN :
           Solo(p) /\ HookEnter(p, id, dbErr)
    \/ \E p \in SeqProcs, answer \in {"error", "no_choices", "ok"}, c \in Completions :
           HookSummarize(p, answer, c)
    \/ \E p \in SeqProcs, ok \in BOOLEAN : HookSave(p, ok)
    \/ \E p \in SeqProcs, ok \in BOOLEAN : HookEmbed(p, ok)
    \/ \E p \in SeqProcs, ok \in BOOLEAN : HookAdd(p, ok)
    \/ \E p \in SeqProcs : HookReturn(p)
    \/ \E dbErr \in BOOLEAN : Solo(0) /\ BackfillStart(dbErr)
    \/ \E ok \in BOOLEAN : BackfillItem(ok)
    \/ \E ok \in BOOLEAN : BackfillAdd(ok)
    \/ BackfillFinish
    \/ BackfillReturn
    \/ \E dbErr \in BOOLEAN : AllQuiet /\ RAGStats(dbErr)
    \/ StatsReturn
    \/ \E body \in AllBodies : AllQuiet /\ ChatBind(body)
    \/ \E ok \in BOOLEAN : ChatEmbed(ok)
    \/ \E answer \in {"error", "no_groups", "groups"}, docs \in Matches(store, ChatResults) :
           ChatQuery(answer, docs)
    \/ \E answer \in {"error", "no_choices", "ok"}, c \in Completions : ChatLLM(answer, c)
    \/ ChatReturn

SpecAll == AllInit /\ [][AllNext]_vars

\* ------------------------------------------------------ whole-system claims
\* The jobs of the sweep for which the embedding provider, and the store,
\* were called.
SweepEmbedded ==
    {i \in 1..Len(bf.fate) :
        bf.fate[i].how \in {"embedded", "embed_failed", "stored", "add_failed"}}
SweepWritten ==
    {i \in 1..Len(bf.fate) : bf.fate[i].how \in {"stored", "add_failed"}}

\* C23: no external call is retried.  One hook invocation calls the
\* summarizer, the embedding provider and the store write at most once each;
\* one sweep calls the embedding provider and the store write at most once
\* per job; one chat calls the embedding provider, the store query and the
\* generative model at most once each; a failed call counts like any other.
C23_NoRetries ==
    /\ \A p \in HookProcs :
          /\ hook[p].nSum = (IF hook[p].llm = "none" THEN 0 ELSE 1)
          /\ hook[p].nEmb = (IF hook[p].embed = "none" THEN 0 ELSE 1)
          /\ hook[p].nAdd = (IF hook[p].add = "none" THEN 0 ELSE 1)
    /\ \A i, k \in 1..Len(bf.fate) : i # k => bf.fate[i].id # bf.fate[k].id
    /\ bf.nSum = 0
    /\ bf.nEmb = Cardinality(SweepEmbedded)
    /\ bf.nAdd = Cardinality(SweepWritten)
    /\ chat.nEmb = (IF chat.embAnswer = "none" THEN 0 ELSE 1)
    /\ chat.nQuery = (IF chat.queryAnswer = "none" THEN 0 ELSE 1)
    /\ chat.nLLM = (IF chat.llmAnswer = "none" THEN 0 ELSE 1)

C23_Witness ==
    /\ hook[1].pc = "done"
    /\ hook[1].llm = "error" /\ hook[1].nSum = 1
    /\ hook[1].embed = "ok" /\ hook[1].nEmb = 1
    /\ hook[1].add = "error" /\ hook[1].nAdd = 1
    /\ \E j \in Jobs : ingested[j].by = "backfill"

\* C24: within one chat the external calls are strictly ordered: the
\* vector-store query starts only after the query embedding succeeded, the
\* generative model is called only after the vector-store query succeeded;
\* if the embedding or the vector-store query fails, chat fails and the
\* generative model is never called.
C24_ChatCallsInOrder ==
    /\ chat.nQuery > 0 => chat.nEmb = 1 /\ chat.embAnswer = "ok"
    /\ chat.nLLM > 0 =>
          /\ chat.nQuery = 1
          /\ chat.embAnswer = "ok"
          /\ chat.queryAnswer \in {"no_groups", "groups"}
    /\ chat.embAnswer = "error" =>
          /\ chat.pc = "done" /\ chat.err # "nil" /\ chat.http = 500
          /\ chat.nQuery = 0 /\ chat.nLLM = 0
          /\ chat.response = EmptyString
    /\ chat.queryAnswer = "error" =>
          /\ chat.pc = "done" /\ chat.err # "nil" /\ chat.http = 500
          /\ chat.nLLM = 0
          /\ chat.response = EmptyString

C24_Witness ==
    /\ chat.pc = "done"
    /\ chat.embAnswer = "ok" /\ chat.queryAnswer = "error"
    /\ chat.nEmb = 1 /\ chat.nQuery = 1 /\ chat.nLLM = 0
    /\ chat.http = 500

\* ------------------------------------------------------------ cancellation
\* RAGChat gives Chat a context that ends after two minutes or when the
\* client goes away.  Query takes the context but hands it neither to
\* GenerateEmbedding nor to vectorDB.Query, which take none: their calls run
\* on whatever happens to the context; only ChatCompletion receives it.  The
\* hook makes its own context.Background(), which nothing cancels.
ChatCancel ==
    /\ chat.pc \in {"embed", "query", "llm"}
    /\ chat.cancelledAt = "none"
    /\ chat' = [chat EXCEPT !.cancelledAt = chat.pc]
    /\ UNCHANGED <<xvars, ragService, jobs, store, hook, bf, runs, ingested, stats, batch>>

CancelNext ==
    \/ ChatNext
    \/ ChatCancel

SpecCancel == ChatInit /\ [][CancelNext]_vars

\* C25: when the caller's context is cancelled or times out while a chat has
\* an external call in flight, that call is abandoned, no later external call
\* of the chat is started, and the chat ends with a failure.
C25_CancelAbandonsChat ==
    /\ chat.cancelledAt = "embed" =>
          /\ chat.embAnswer \in {"none", "error"}
          /\ chat.nQuery = 0 /\ chat.nLLM = 0
    /\ chat.cancelledAt = "query" =>
          /\ chat.queryAnswer \in {"none", "error"}
          /\ chat.nLLM = 0
    /\ (chat.cancelledAt # "none" /\ chat.pc = "done") => chat.err # "nil"

\* The ids the collection holds.
IdsOf(coll) == {d.id : d \in BagToSet(coll)}

\* C26: across any sequence of hook runs, sweeps, queries, chats and stats
\* calls the set of document ids in the collection never shrinks, and the
\* documents of an id change only in a step that ingests that job id again.
C26_IdsNeverShrink ==
    [][ /\ IdsOf(store) \subseteq IdsOf(store')
        /\ \A j \in Jobs :
              DocsOf(store', j) # DocsOf(store, j) =>
                  /\ ingested'[j].n = ingested[j].n + 1
                  /\ \A k \in Jobs \ {j} : DocsOf(store', k) = DocsOf(store, k)
        /\ (chat' # chat \/ stats' # stats) => store' = store ]_vars

C26_Witness ==
    /\ IdsOf(store) = {"j1", "j2"}
    /\ ingested["j1"].n = 2
    /\ ingested["j1"].prevContent # ingested["j1"].content
    /\ chat.pc = "done" /\ chat.nQuery = 1

\* No hook invocation is between its first and its last step.
HooksAtRest == \A p \in HookProcs : hook[p].pc \in {"idle", "done"}

\* The document carries a summary.
HasSummary(d) == HasPrefix(d.content, "Summary: ")

StartsWith(s, pre) == Len(s) >= Len(pre) /\ SubSeq(s, 1, Len(pre)) = pre

\* C27: after any sequence or interleaving of hook runs for a job, also runs
\* whose summary save failed, whenever the job's stored document contains a
\* summary, that summary is the text of the summary on the job record.
C27_StoredSummaryIsRecordSummary ==
    HooksAtRest =>
        \A j \in Jobs : \A d \in DocsOf(store, j) :
            HasSummary(d) =>
                /\ ~jobs[j].summary.null
                /\ StartsWith(d.content,
                              <<"Summary: ">> \o jobs[j].summary.val \o <<"\n\nTranscript: ">>)

\* ------------------------------------------------------------ sweep claims
\* C28: a sweep attempts every selected job exactly once, in the order of the
\* selection, and never stops early because an item failed; when it
\* completes, processed + failed = total.
C28_SweepVisitsEveryJob ==
    /\ bf.pc \in {"item", "add", "done"} /\ bf.http # 500 =>
          /\ bf.list = SelectJobs(bf.rowsBefore, JobOrder, 1)
          /\ Len(bf.fate) <= Len(bf.list)
          /\ \A i \in 1..Len(bf.fate) :
                /\ bf.fate[i].id = bf.list[i].id
                /\ bf.fate[i].how \in {"blank", "embedded", "embed_failed",
                                       "stored", "add_failed"}
    /\ (bf.pc = "done" /\ bf.http = 200) =>
          /\ Len(bf.fate) = Len(bf.list)
          /\ bf.total = Len(bf.list)
          /\ bf.processed + bf.failed = bf.total
          /\ bf.processed =
                Cardinality({i \in 1..Len(bf.fate) : bf.fate[i].how = "stored"})

C28_Witness ==
    /\ bf.pc = "done" /\ bf.http = 200
    /\ bf.total = 2
    /\ bf.fate[1].how = "embed_failed"
    /\ bf.fate[2].how = "stored"
    /\ bf.processed = 1 /\ bf.failed = 1

\* ------------------------------------------------------------- hook frame
\* The invocation has nothing to ingest: no service, no such job, a job that
\* is not completed, or a null or empty transcript.
Ineligible(h) ==
    \/ ragService = "nil"
    \/ h.id \notin Jobs
    \/ jobs[h.id].status # StatusCompleted
    \/ jobs[h.id].transcript.null
    \/ Raw(jobs[h.id].transcript.val) = EmptyString

\* C29: a hook invocation for a job that does not exist, is not completed or
\* has a null or empty transcript, or on a hook without RAG service, issues
\* no summarizer, embedding or vector-store call and leaves the job record
\* and the vector store unchanged.
C29_IneligibleRunTouchesNothing ==
    \A p \in SeqProcs :
        (hook[p].pc # "idle" /\ Ineligible(hook[p])) =>
            /\ hook[p].pc = "done"
            /\ hook[p].outcome \in {"no_service", "no_job", "not_completed", "no_transcript"}
            /\ hook[p].nSum = 0 /\ hook[p].nEmb = 0 /\ hook[p].nAdd = 0
            /\ hook[p].llm = "none" /\ hook[p].embed = "none" /\ hook[p].add = "none"
            /\ store = hook[p].before
            /\ hook[p].id \in Jobs => jobs[hook[p].id] = hook[p].rowBefore

C29_Witness ==
    /\ hook[1].pc = "done"
    /\ hook[1].outcome = "not_completed"
    /\ ragService = "ready"
    /\ store # EmptyBag
    /\ store = hook[1].before

====
